---- MODULE Spec2Model ----
(***************************************************************************)
(* State-machine model of the page translation pipeline of                 *)
(* src/sexy_logger/SexyLogger.py (class PDFTranslator) running on the      *)
(* asyncio event loop: process_translation fans process_page out over the  *)
(* pages with asyncio.gather and saves the document after the join.        *)
(*                                                                         *)
(* Text is a sequence of one-character strings; the character U+2022 is    *)
(* written "bullet".  Logging calls have no effect on the modelled state.  *)
(***************************************************************************)
EXTENDS Naturals, Sequences, FiniteSets, TLC

(***************************************************************************)
(* Bounds of the model.                                                    *)
(***************************************************************************)
NumPages == 2
MaxFrags == 2
\* direct calls: the longest string handed to preprocess_text, the most
\* engine fragments handed to extract_text_fragments_from_page
MaxLen == 4
MaxEngineFrags == 3
\* the most calls made on the class SexyLogger (constructor, reset_logger)
MaxLoggerCalls == 4
\* the most log operations made on a logger
MaxLogOps == 3

Pages == 1..NumPages

Min(a, b) == IF a <= b THEN a ELSE b

(***************************************************************************)
(* Text normalisation: PDFTranslator.preprocess_text.                      *)
(***************************************************************************)
unwanted_characters == {"|", "bullet"}

Whitespace == {" ", "\t", "\n"}

\* text.replace(char, "") for every unwanted character
RemoveUnwanted(text) == SelectSeq(text, LAMBDA c : c \notin unwanted_characters)

\* text.split(): the maximal runs of non-whitespace characters, in order
RECURSIVE SplitFrom(_, _, _)
SplitFrom(text, i, word) ==
    IF i > Len(text)
    THEN IF word = <<>> THEN <<>> ELSE <<word>>
    ELSE IF text[i] \in Whitespace
         THEN IF word = <<>>
              THEN SplitFrom(text, i + 1, <<>>)
              ELSE <<word>> \o SplitFrom(text, i + 1, <<>>)
         ELSE SplitFrom(text, i + 1, Append(word, text[i]))

Split(text) == SplitFrom(text, 1, <<>>)

\* ' '.join(words)
RECURSIVE JoinSpace(_)
JoinSpace(words) ==
    IF words = <<>> THEN <<>>
    ELSE IF Len(words) = 1 THEN words[1]
    ELSE words[1] \o <<" ">> \o JoinSpace(Tail(words))

\* variant: the whitespace is collapsed before the unwanted characters are
\* removed
preprocess_text_collapse_first(text) == RemoveUnwanted(JoinSpace(Split(text)))

preprocess_text(text) == JoinSpace(Split(RemoveUnwanted(text)))

(***************************************************************************)
(* The Document.  The engine's fragment objects of a page carry a text;    *)
(* the engine's full text of a page is its fragment texts, one per line.   *)
(***************************************************************************)
EngineTexts == { <<"a">>, <<"|", "b", " ", " ", "c">> }

RECURSIVE SeqsUpTo(_, _)
SeqsUpTo(S, n) ==
    IF n = 0 THEN { <<>> }
    ELSE LET shorter == SeqsUpTo(S, n - 1)
         IN  shorter \cup { Append(s, e) : s \in { t \in shorter : Len(t) = n - 1 }, e \in S }

PageContents == SeqsUpTo(EngineTexts, MaxFrags)

\* the content of the pages outside the focus
FillerContent == << <<"a">> >>

RECURSIVE JoinLines(_)
JoinLines(texts) ==
    IF texts = <<>> THEN <<>>
    ELSE IF Len(texts) = 1 THEN texts[1]
    ELSE texts[1] \o <<"\n">> \o JoinLines(Tail(texts))

\* TextAbsorber.text of a page
AbsorbedText(fragments) == JoinLines(fragments)

\* extract_text_fragments_from_page: the preprocessed text of every engine
\* fragment whose text is truthy (non-empty), in order
RECURSIVE ProcessedFragments(_)
ProcessedFragments(fragments) ==
    IF fragments = <<>> THEN <<>>
    ELSE IF Head(fragments) # <<>>
         THEN <<preprocess_text(Head(fragments))>> \o ProcessedFragments(Tail(fragments))
         ELSE ProcessedFragments(Tail(fragments))

(***************************************************************************)
(* jsonify_page_fragments: the request structure of a page.                *)
(***************************************************************************)
\* variant: the entries are listed from the last fragment to the first
jsonify_page_fragments_reversed(page_number, original_page_context, translated_page_text, original_text_fragments) ==
    [ page_data |->
        [ page_number |-> page_number,
          page_context |-> [ original |-> original_page_context,
                             translated |-> translated_page_text ],
          text_fragments |-> [ i \in 1..Len(original_text_fragments) |->
                                 [ original_text_fragment |->
                                       original_text_fragments[Len(original_text_fragments) + 1 - i],
                                   translated_text_fragment |-> <<>> ] ] ] ]

jsonify_page_fragments(page_number, original_page_context, translated_page_text, original_text_fragments) ==
    [ page_data |->
        [ page_number |-> page_number,
          page_context |-> [ original |-> original_page_context,
                             translated |-> translated_page_text ],
          text_fragments |-> [ i \in 1..Len(original_text_fragments) |->
                                 [ original_text_fragment |-> original_text_fragments[i],
                                   translated_text_fragment |-> <<>> ] ] ] ]

(***************************************************************************)
(* Texts exchanged with the chat backend, by their syntax.  A text has a   *)
(* body and may be a JSON string literal around that body (lit = 1).  A    *)
(* literal around a body holding quotes needs one layer of backslash       *)
(* escapes to be well formed: esc counts the layers present (0: the quotes *)
(* inside are bare, 1: well formed, 2: every backslash doubled again).     *)
(* Bodies: whitespace only, prose that is not JSON, a text ending in a     *)
(* lone backslash, a JSON number, a JSON object.                           *)
(***************************************************************************)
Body(b, tf, entries) == [ b |-> b, tf |-> tf, entries |-> entries ]

BlankBody == Body("blank", FALSE, <<>>)
ProseBody == Body("prose", FALSE, <<>>)
BadEscapeBody == Body("badescape", FALSE, <<>>)
NumberBody == Body("number", FALSE, <<>>)
\* an object with (tf) or without the "text_fragments" key
ObjectBody(tf, entries) == Body("object", tf, entries)

Plain(body) == [ lit |-> 0, esc |-> 0, body |-> body ]
Literal(body, esc) == [ lit |-> 1, esc |-> esc, body |-> body ]

\* the body holds characters that a JSON string literal must escape
NeedsEscape(body) == body.b = "object"

\* Python values
PyStr(text) == [ ty |-> "str", text |-> text, body |-> BlankBody ]
PyDict(body) == [ ty |-> "dict", text |-> Plain(BlankBody), body |-> body ]
PyInt == [ ty |-> "int", text |-> Plain(BlankBody), body |-> NumberBody ]
PyNone == [ ty |-> "None", text |-> Plain(BlankBody), body |-> BlankBody ]

\* results of a call: a value, or a raised exception
Ok(val) == [ ok |-> TRUE, val |-> val, exc |-> "" ]
Raise(exc) == [ ok |-> FALSE, val |-> PyNone, exc |-> exc ]

\* decode_unicode_escapes(text): text.encode('utf-8').decode('unicode_escape')
\* removes one layer of backslash escapes; a lone trailing backslash cannot
\* be decoded; None has no encode attribute
decode_unicode_escapes(v) ==
    IF v.ty # "str" THEN Raise("AttributeError")
    ELSE LET t == v.text IN
         IF t.lit = 0
         THEN IF t.body.b = "badescape" THEN Raise("UnicodeDecodeError") ELSE Ok(v)
         ELSE IF NeedsEscape(t.body) /\ t.esc > 0
              THEN Ok(PyStr(Literal(t.body, t.esc - 1)))
              ELSE Ok(v)

\* json.loads(text)
json_loads(t) ==
    IF t.lit = 0
    THEN CASE t.body.b = "object" -> Ok(PyDict(t.body))
           [] t.body.b = "number" -> Ok(PyInt)
           [] OTHER -> Raise("JSONDecodeError")
    ELSE IF NeedsEscape(t.body) /\ t.esc # 1
         THEN Raise("JSONDecodeError")
         ELSE Ok(PyStr(Plain(t.body)))

\* llm_response.strip() is empty
IsBlank(t) == t.lit = 0 /\ t.body.b = "blank"

(***************************************************************************)
(* What the chat backend may answer for a page whose detached fragment     *)
(* list is frags.  A response entry holds each of the two keys or not.     *)
(***************************************************************************)
Key(text) == [ present |-> TRUE, text |-> text ]
NoKey == [ present |-> FALSE, text |-> <<>> ]

Entry(o, t) == [ original_text_fragment |-> o, translated_text_fragment |-> t ]

\* the translation the backend gives for a fragment text
Translated(text) == <<"T">> \o text

\* a claimed original text that is no fragment's text
WrongText == <<"z">>

AlignedEntry(text) == Entry(Key(text), Key(Translated(text)))

AlignedEntries(frags) == [ i \in 1..Len(frags) |-> AlignedEntry(frags[i]) ]

\* entries that differ from the aligned ones at one index: a wrong claimed
\* original, a missing translated key (with a wrong claimed original), a
\* missing original key
EntryFaults(text) ==
    { Entry(Key(WrongText), Key(Translated(text))),
      Entry(Key(WrongText), NoKey),
      Entry(NoKey, Key(Translated(text))) }

\* the aligned list, the aligned list with one entry more, with the last
\* entry missing, and with one faulty entry
EntryLists(frags) ==
    LET aligned == AlignedEntries(frags)
    IN  { aligned, Append(aligned, AlignedEntry(WrongText)) }
        \cup (IF frags = <<>> THEN {} ELSE { SubSeq(aligned, 1, Len(frags) - 1) })
        \cup UNION { { [ aligned EXCEPT ![j] = e ] : e \in EntryFaults(frags[j]) } :
                     j \in 1..Len(frags) }

ObjectBodies(frags) ==
    { ObjectBody(TRUE, es) : es \in EntryLists(frags) } \cup { ObjectBody(FALSE, <<>>) }

\* the texts a chat call may return: plain texts, JSON documents, and JSON
\* string literals around them
RawTexts(frags) ==
    { Plain(BlankBody), Plain(ProseBody), Plain(BadEscapeBody), Plain(NumberBody),
      Literal(BlankBody, 1), Literal(ProseBody, 1),
      Plain(ObjectBody(TRUE, AlignedEntries(frags))), Plain(ObjectBody(FALSE, <<>>)),
      Literal(ObjectBody(TRUE, AlignedEntries(frags)), 1) }
    \cup { Literal(o, 2) : o \in ObjectBodies(frags) }

\* the few texts the backend returns for the pages outside the focus
BasicTexts(frags) ==
    { Plain(ProseBody),
      Plain(ObjectBody(TRUE, AlignedEntries(frags))),
      Literal(ObjectBody(TRUE, <<>>), 2) }

\* chat ids: the empty string, the ids the backend hands out, and None
EmptyChatId == ""
NoneChatId == "None"
ChatIds == { NoneChatId, "c1", "c2" }
BasicChatIds == { "c1" }

\* what a chat call returns: (response, chat_id)
Answer(response, chat_id) == [ response |-> response, chat_id |-> chat_id ]

ChatAnswers(frags) ==
    { Answer(PyNone, NoneChatId) }
    \cup { Answer(PyStr(t), c) : t \in RawTexts(frags), c \in ChatIds }

BasicChatAnswers(frags) ==
    { Answer(PyStr(t), c) : t \in BasicTexts(frags), c \in BasicChatIds }

\* the texts the translation backend may return
TranslatedPage(page_text) == Translated(page_text)

(***************************************************************************)
(* send_page_to_llm: prompts, one loop iteration, and the files it writes. *)
(***************************************************************************)
max_retries == 2

\* json.dumps(page_data, ...): the text of the request
json_dumps(page_data) == [ json_of |-> page_data ]

FullPrompt(page_number, page_data_json) ==
    [ kind |-> "full", page_number |-> page_number, text |-> page_data_json ]

\* variant: the retries send a full request again
CorrectivePromptFull == [ kind |-> "full", page_number |-> 0, text |-> json_dumps(<<>>) ]

\* the prompt assigned in the except branch
CorrectivePrompt == [ kind |-> "corrective", page_number |-> 0, text |-> json_dumps(<<>>) ]

\* a file of the main directory: whether it exists, how often it was
\* written, and what it holds
NoFile == [ exists |-> FALSE, writes |-> 0, content |-> PyNone ]

\* save_json_to_file(json_data, filename): open(..., 'w') creates or
\* truncates the file, then json_file.write(json_data) takes text only
save_json_to_file(file, json_data) ==
    IF json_data.ty = "str"
    THEN [ file |-> [ exists |-> TRUE, writes |-> file.writes + 1, content |-> json_data ],
           exc |-> "" ]
    ELSE [ file |-> [ exists |-> TRUE, writes |-> file.writes, content |-> PyStr(Plain(BlankBody)) ],
           exc |-> "TypeError" ]

\* variant: the loop runs one index too far
LastAttemptOneMore(attempt) == attempt = max_retries + 1

\* "for attempt in range(max_retries + 1)": attempt is the last index
LastAttempt(attempt) == attempt = max_retries

\* variant: the last attempt raises when its response does not parse
AttemptBodyRaising(attempt, response, file) ==
    LET decoded == decode_unicode_escapes(response) IN
    IF ~decoded.ok
    THEN [ exit |-> "raise", exc |-> decoded.exc, val |-> PyNone, response |-> response, file |-> file ]
    ELSE LET parsed == json_loads(decoded.val.text) IN
         IF parsed.ok
         THEN LET saved == save_json_to_file(file, parsed.val) IN
              IF saved.exc # ""
              THEN [ exit |-> "raise", exc |-> saved.exc, val |-> PyNone,
                     response |-> decoded.val, file |-> saved.file ]
              ELSE [ exit |-> "return", exc |-> "", val |-> parsed.val,
                     response |-> decoded.val, file |-> saved.file ]
         ELSE IF LastAttempt(attempt)
              THEN [ exit |-> "raise", exc |-> "Exception", val |-> PyNone,
                     response |-> decoded.val, file |-> file ]
              ELSE [ exit |-> "retry", exc |-> "", val |-> PyNone,
                     response |-> decoded.val, file |-> file ]

\* The body of "for attempt in range(max_retries + 1)" after the chat call
\* returned response: what the iteration does.
\*   exit = "raise"  : an exception leaves send_page_to_llm
\*   exit = "return" : send_page_to_llm returns val
\*   exit = "retry"  : the loop goes on with the corrective prompt
AttemptBody(attempt, response, file) ==
    LET decoded == decode_unicode_escapes(response) IN
    IF ~decoded.ok
    THEN [ exit |-> "raise", exc |-> decoded.exc, val |-> PyNone, response |-> response, file |-> file ]
    ELSE LET parsed == json_loads(decoded.val.text) IN
         IF parsed.ok
         THEN LET saved == save_json_to_file(file, parsed.val) IN
              IF saved.exc # ""
              THEN [ exit |-> "raise", exc |-> saved.exc, val |-> PyNone,
                     response |-> decoded.val, file |-> saved.file ]
              ELSE [ exit |-> "return", exc |-> "", val |-> parsed.val,
                     response |-> decoded.val, file |-> saved.file ]
         ELSE IF LastAttempt(attempt)
              THEN [ exit |-> "return", exc |-> "", val |-> decoded.val,
                     response |-> decoded.val, file |-> file ]
              ELSE [ exit |-> "retry", exc |-> "", val |-> PyNone,
                     response |-> decoded.val, file |-> file ]

\* "if chat_id is None: chat_id = ''" before the chat call
ChatIdToSend(chat_id) == IF chat_id = NoneChatId THEN EmptyChatId ELSE chat_id

(***************************************************************************)
(* parse_llm_response(llm_response, page_number).                          *)
(***************************************************************************)
\* an exception: its type, its message, and the response text the message
\* embeds (none of the raised messages embeds one)
Exc(type, msg) == [ type |-> type, msg |-> msg, payload |-> PyNone ]
NoExc == Exc("", "")

\* "text_fragments" in text: the characters occur in the text
HasKeyText(t) == t.body.b = "object" /\ t.body.tf

\* variant: the key is looked for in the text before the text is parsed
parse_llm_response_key_first(response) ==
    IF response.ty # "str"
    THEN [ exc |-> Exc("AttributeError", "strip"), val |-> PyNone ]
    ELSE IF ~HasKeyText(response.text)
    THEN [ exc |-> Exc("KeyError", "'text_fragments' key missing in LLM response"), val |-> PyNone ]
    ELSE LET parsed == json_loads(response.text) IN
         IF ~parsed.ok
         THEN [ exc |-> Exc("Exception", "Failed to decode LLM response"), val |-> PyNone ]
         ELSE [ exc |-> NoExc, val |-> parsed.val ]

parse_llm_response(llm_response) ==
    IF llm_response.ty # "str"
    THEN [ exc |-> Exc("AttributeError", "strip"), val |-> PyNone ]
    ELSE IF IsBlank(llm_response.text)
    THEN [ exc |-> Exc("Exception", "LLM response is empty or invalid"), val |-> PyNone ]
    ELSE LET parsed == json_loads(llm_response.text) IN
         IF ~parsed.ok
         THEN [ exc |-> Exc("Exception", "Failed to decode LLM response"), val |-> PyNone ]
         ELSE IF parsed.val.ty = "int"
         THEN [ exc |-> Exc("TypeError", "argument of type 'int' is not iterable"), val |-> PyNone ]
         ELSE IF parsed.val.ty = "dict" /\ ~parsed.val.body.tf
         THEN [ exc |-> Exc("KeyError", "'text_fragments' key missing in LLM response"), val |-> PyNone ]
         ELSE IF parsed.val.ty = "str" /\ ~HasKeyText(parsed.val.text)
         THEN [ exc |-> Exc("KeyError", "'text_fragments' key missing in LLM response"), val |-> PyNone ]
         ELSE [ exc |-> NoExc, val |-> parsed.val ]

(***************************************************************************)
(* Step 6 of process_page: the reintegration loop over                     *)
(* zip(original_text_fragments["text_fragments"], response fragments).     *)
(* The detached fragments are Python strings.                              *)
(***************************************************************************)
\* fragment["text_fragment"] on a str: string indices must be integers
FragmentSubscript(fragment) == [ ok |-> FALSE, text |-> fragment ]

MismatchExc ==
    Exc("Exception", "Original text does not match in the received translation from LLM.")

\* variant: a response entry that lacks one of the two keys ends the loop
\* with the mismatch error
RECURSIVE ReintegrateFromStrict(_, _, _)
ReintegrateFromStrict(i, fragments, entries) ==
    IF i > Min(Len(fragments), Len(entries))
    THEN [ exc |-> NoExc, fragments |-> fragments ]
    ELSE LET translated_fragment == entries[i] IN
         IF translated_fragment.translated_text_fragment.present
            /\ translated_fragment.original_text_fragment.present
         THEN LET current == FragmentSubscript(fragments[i]) IN
              IF ~current.ok
              THEN [ exc |-> Exc("TypeError", "string indices must be integers"),
                     fragments |-> fragments ]
              ELSE IF current.text # translated_fragment.original_text_fragment.text
              THEN [ exc |-> MismatchExc, fragments |-> fragments ]
              ELSE ReintegrateFromStrict(i + 1,
                       [ fragments EXCEPT ![i] = translated_fragment.translated_text_fragment.text ],
                       entries)
         ELSE [ exc |-> MismatchExc, fragments |-> fragments ]

RECURSIVE ReintegrateFrom(_, _, _)
ReintegrateFrom(i, fragments, entries) ==
    IF i > Min(Len(fragments), Len(entries))
    THEN [ exc |-> NoExc, fragments |-> fragments ]
    ELSE LET translated_fragment == entries[i] IN
         IF translated_fragment.translated_text_fragment.present
            /\ translated_fragment.original_text_fragment.present
         THEN LET current == FragmentSubscript(fragments[i]) IN
              IF ~current.ok
              THEN [ exc |-> Exc("TypeError", "string indices must be integers"),
                     fragments |-> fragments ]
              ELSE IF current.text # translated_fragment.original_text_fragment.text
              THEN [ exc |-> MismatchExc, fragments |-> fragments ]
              ELSE ReintegrateFrom(i + 1,
                       [ fragments EXCEPT ![i] = translated_fragment.translated_text_fragment.text ],
                       entries)
         ELSE ReintegrateFrom(i + 1, fragments, entries)

Reintegrate(fragments, entries) == ReintegrateFrom(1, fragments, entries)

(***************************************************************************)
(* State.                                                                  *)
(***************************************************************************)
VARIABLES
    focus,      \* input bound: the page whose content and chat answers range over
                \* the full sets (the other pages hold FillerContent and get the
                \* answers of BasicChatAnswers)
    doc,        \* self.document: per page, the texts of the engine's fragment objects
    pc,         \* per page, the stage its process_page coroutine executes next
    loc,        \* per page, the local variables of process_page / send_page_to_llm
    result,     \* per page, the outcome of its asyncio Task
    files,      \* per page, the two JSON files save_json_to_file writes
    ready,      \* the event loop's queue of ready callbacks
    running,    \* the page whose Task the event loop is executing (0: none)
    outer,      \* the future asyncio.gather returned
    nfinished,  \* gather's count of finished children
    mainpc,     \* where process_translation is
    saves,      \* number of calls of self.document.save
    failures,   \* the pages whose process_page raised, in the order they raised
    text,       \* direct calls of preprocess_text: the string handed to the next call
    normalized, \* direct calls of preprocess_text: the strings returned so far
    page_fragments, \* direct call of extract_text_fragments_from_page: the texts
                    \* of the fragments the engine's absorber finds on the page
    extracted,  \* direct call of extract_text_fragments_from_page: its return value
    cls_instance,  \* SexyLogger._instance: 0 for None, else the index in loggers
    loggers,       \* the SexyLogger objects created so far, in creation order
    logger_calls,  \* the calls made on the class SexyLogger so far, in order
    last_log,      \* the last log operation made on a logger, with the numbers of
                   \* lines its two outputs held before it
    llm_text,      \* direct call of parse_llm_response: its llm_response argument
    parse_outcome, \* direct call of parse_llm_response: what it returned or raised
    reassembled_pages, \* direct call of reintegrate_translated_fragments: the items
                       \* of its reassembled_pages argument, in the dict's order
    reintegrated   \* direct call of reintegrate_translated_fragments: whether it
                   \* was made and what it raised

\* the state of the logger class of src/SexyLogger_backup_2024-10-10_2_57_pm.py
logger_vars == <<cls_instance, loggers, logger_calls, last_log>>

\* the state of the direct calls
reint_vars == <<reassembled_pages, reintegrated>>

direct == <<text, normalized, page_fragments, extracted, logger_vars, llm_text, parse_outcome,
            reint_vars>>

vars == <<focus, doc, pc, loc, result, files, ready, running, outer, nfinished, mainpc, saves,
          failures, direct>>

\* no direct call is set up or made
NotReturned == [ returned |-> FALSE, page_number |-> 0, text_fragments |-> <<>> ]
NoLog ==
    [ op |-> "none", target |-> 0, log_to_console |-> "None", log_to_file |-> "None",
      file_lines |-> 0, console_lines |-> 0, n |-> 0 ]
NoLoggerCalls ==
    cls_instance = 0 /\ loggers = <<>> /\ logger_calls = <<>> /\ last_log = NoLog
NotParsed == [ called |-> FALSE, exc |-> NoExc, val |-> PyNone ]
NoParseCall == llm_text = PyNone /\ parse_outcome = NotParsed
NotReintegrated == [ called |-> FALSE, exc |-> NoExc ]
NoReintegrateCall == reassembled_pages = <<>> /\ reintegrated = NotReintegrated
NoDirectCalls ==
    /\ text = <<>> /\ normalized = <<>>
    /\ page_fragments = <<>> /\ extracted = NotReturned
    /\ NoLoggerCalls
    /\ NoParseCall
    /\ NoReintegrateCall

\* a chat call of send_page_to_llm: the loop index, what was passed and
\* what came back
Call(attempt, prompt, chat_id, answer) ==
    [ attempt |-> attempt, prompt |-> prompt, chat_id |-> chat_id, answer |-> answer ]

NoCall == Call(0, CorrectivePrompt, EmptyChatId, Answer(PyNone, NoneChatId))

\* ncalls, lastcall and prev_chat_id record the chat calls made so far by
\* this invocation of send_page_to_llm: their number, the last one, and the
\* chat id returned by the one before it
NoLocals ==
    [ page_text |-> <<>>,
      original_text_fragments |-> <<>>,
      translated_page_text |-> <<>>,
      page_data |-> <<>>,
      prompt |-> CorrectivePrompt,
      chat_id |-> EmptyChatId,
      attempt |-> 0,
      ncalls |-> 0,
      lastcall |-> NoCall,
      prev_chat_id |-> EmptyChatId,
      response |-> PyNone,
      translated_page_data_str |-> PyNone,
      translated_page_data |-> PyNone ]

Pending == [ state |-> "pending", exc |-> NoExc ]
Returned == [ state |-> "returned", exc |-> NoExc ]
Raised(exc) == [ state |-> "raised", exc |-> exc ]

Handle(h, page) == [ h |-> h, page |-> page ]

Init ==
    /\ focus \in Pages
    /\ doc \in [Pages -> PageContents]
    /\ \A p \in Pages : p # focus => doc[p] = FillerContent
    /\ pc = [p \in Pages |-> "created"]
    /\ loc = [p \in Pages |-> NoLocals]
    /\ result = [p \in Pages |-> Pending]
    /\ files = [p \in Pages |-> [request |-> NoFile, response |-> NoFile]]
    /\ ready = <<>>
    /\ running = 0
    /\ outer = [ state |-> "none", exc |-> NoExc, page |-> 0 ]
    /\ nfinished = 0
    /\ mainpc = "start"
    /\ saves = 0
    /\ failures = <<>>
    /\ NoDirectCalls

(***************************************************************************)
(* process_translation up to the await of asyncio.gather: one Task per  *)
(* page, scheduled in page order; process_translation then waits.          *)
(***************************************************************************)
\* variant: the gather is not awaited and the save follows at once
StartTranslationNoAwait ==
    /\ mainpc = "start"
    /\ mainpc' = "done"
    /\ saves' = saves + 1
    /\ ready' = [ p \in Pages |-> Handle("step", p) ]
    /\ outer' = [ state |-> "pending", exc |-> NoExc, page |-> 0 ]
    /\ UNCHANGED <<direct, focus, doc, pc, loc, result, files, running, nfinished, failures>>

StartTranslation ==
    /\ mainpc = "start"
    /\ mainpc' = "gather"
    /\ ready' = [ p \in Pages |-> Handle("step", p) ]
    /\ outer' = [ state |-> "pending", exc |-> NoExc, page |-> 0 ]
    /\ UNCHANGED <<direct, focus, doc, pc, loc, result, files, running, nfinished, saves, failures>>

\* the event loop runs the first step of the Task of page p
RunTask(p) ==
    /\ running = 0
    /\ ready # <<>>
    /\ Head(ready) = Handle("step", p)
    /\ ready' = Tail(ready)
    /\ running' = p
    /\ pc' = [pc EXCEPT ![p] = "extract_text"]
    /\ UNCHANGED <<direct, focus, doc, loc, result, files, outer, nfinished, mainpc, saves, failures>>

\* whether a call to the engine or to a backend made for page p may raise:
\* either way for the focus page, never for the others
CallOutcomes(p) == IF p = focus THEN BOOLEAN ELSE {TRUE}

\* an exception leaves process_page
Fail(p, exc) ==
    /\ pc' = [pc EXCEPT ![p] = "raise"]
    /\ result' = [result EXCEPT ![p] = Raised(exc)]
    /\ failures' = Append(failures, p)

(***************************************************************************)
(* process_page, stage by stage.  No stage suspends: every awaited         *)
(* coroutine runs to its end without yielding to the event loop.           *)
(***************************************************************************)
\* Step 1: extract_text_from_page
ExtractText(p) ==
    /\ running = p /\ pc[p] = "extract_text"
    /\ \E engine_ok \in CallOutcomes(p) :
        IF engine_ok
        THEN /\ loc' = [loc EXCEPT ![p].page_text = preprocess_text(AbsorbedText(doc[p]))]
             /\ pc' = [pc EXCEPT ![p] = "extract_fragments"]
             /\ UNCHANGED <<result, failures>>
        ELSE /\ Fail(p, Exc("EngineError", "page.accept"))
             /\ UNCHANGED loc
    /\ UNCHANGED <<direct, focus, doc, files, ready, running, outer, nfinished, mainpc, saves>>

\* Step 2: extract_text_fragments_from_page
ExtractFragments(p) ==
    /\ running = p /\ pc[p] = "extract_fragments"
    /\ \E engine_ok \in CallOutcomes(p) :
        IF engine_ok
        THEN /\ loc' = [loc EXCEPT ![p].original_text_fragments = ProcessedFragments(doc[p])]
             /\ pc' = [pc EXCEPT ![p] = "paragraphs"]
             /\ UNCHANGED <<result, failures>>
        ELSE /\ Fail(p, Exc("EngineError", "page.accept"))
             /\ UNCHANGED loc
    /\ UNCHANGED <<direct, focus, doc, files, ready, running, outer, nfinished, mainpc, saves>>

\* variant: the stage after the paragraphs is the request building
GetParagraphsSkipTranslate(p) ==
    /\ running = p /\ pc[p] = "paragraphs"
    /\ pc' = [pc EXCEPT ![p] = "jsonify"]
    /\ UNCHANGED <<direct, focus, doc, loc, result, files, ready, running, outer, nfinished, mainpc, saves, failures>>

\* Step 2.1: get_paragraphs_for_page is called but not awaited: the
\* coroutine object is created and its body never runs
GetParagraphs(p) ==
    /\ running = p /\ pc[p] = "paragraphs"
    /\ pc' = [pc EXCEPT ![p] = "translate"]
    /\ UNCHANGED <<direct, focus, doc, loc, result, files, ready, running, outer, nfinished, mainpc, saves, failures>>

\* Step 3: translate_page
TranslatePage(p) ==
    /\ running = p /\ pc[p] = "translate"
    /\ \E backend_ok \in CallOutcomes(p) :
        IF backend_ok
        THEN /\ loc' = [loc EXCEPT ![p].translated_page_text = TranslatedPage(loc[p].page_text)]
             /\ pc' = [pc EXCEPT ![p] = "jsonify"]
             /\ UNCHANGED <<result, failures>>
        ELSE /\ Fail(p, Exc("BackendError", "translate_text"))
             /\ UNCHANGED loc
    /\ UNCHANGED <<direct, focus, doc, files, ready, running, outer, nfinished, mainpc, saves>>

\* Step 4: jsonify_page_fragments
JsonifyPage(p) ==
    /\ running = p /\ pc[p] = "jsonify"
    /\ loc' = [loc EXCEPT ![p].page_data =
                  jsonify_page_fragments(p, loc[p].page_text, loc[p].translated_page_text,
                                         loc[p].original_text_fragments)]
    /\ pc' = [pc EXCEPT ![p] = "send"]
    /\ UNCHANGED <<direct, focus, doc, result, files, ready, running, outer, nfinished, mainpc, saves, failures>>

\* variant: the request file has one name for all pages
SendPageOneFile(p) ==
    /\ running = p /\ pc[p] = "send"
    /\ LET page_data_json == json_dumps(loc[p].page_data)
           saved == save_json_to_file(files[1].request, PyStr(page_data_json))
       IN  /\ files' = [files EXCEPT ![1].request = saved.file]
           /\ loc' = [loc EXCEPT ![p].prompt = FullPrompt(p, page_data_json),
                                 ![p].chat_id = EmptyChatId,
                                 ![p].attempt = 0]
    /\ pc' = [pc EXCEPT ![p] = "attempt"]
    /\ UNCHANGED <<direct, focus, doc, result, ready, running, outer, nfinished, mainpc, saves, failures>>

\* variant: every page but the first goes on in the chat "c1"
SendPageJoinChat(p) ==
    /\ running = p /\ pc[p] = "send"
    /\ LET page_data_json == json_dumps(loc[p].page_data)
           saved == save_json_to_file(files[p].request, PyStr(page_data_json))
       IN  /\ files' = [files EXCEPT ![p].request = saved.file]
           /\ loc' = [loc EXCEPT ![p].prompt = FullPrompt(p, page_data_json),
                                 ![p].chat_id = IF p = 1 THEN EmptyChatId ELSE "c1",
                                 ![p].attempt = 0]
    /\ pc' = [pc EXCEPT ![p] = "attempt"]
    /\ UNCHANGED <<direct, focus, doc, result, ready, running, outer, nfinished, mainpc, saves, failures>>

\* Step 5, send_page_to_llm before its loop: the request is dumped and
\* saved, the prompt is built, chat_id starts empty
\* variant: the request is not written to its file
SendPageUnsaved(p) ==
    /\ running = p /\ pc[p] = "send"
    /\ LET page_data_json == json_dumps(loc[p].page_data)
       IN  /\ files' = files
           /\ loc' = [loc EXCEPT ![p].prompt = FullPrompt(p, page_data_json),
                                 ![p].chat_id = EmptyChatId,
                                 ![p].attempt = 0]
    /\ pc' = [pc EXCEPT ![p] = "attempt"]
    /\ UNCHANGED <<direct, focus, doc, result, ready, running, outer, nfinished, mainpc, saves, failures>>

SendPage(p) ==
    /\ running = p /\ pc[p] = "send"
    /\ LET page_data_json == json_dumps(loc[p].page_data)
           saved == save_json_to_file(files[p].request, PyStr(page_data_json))
       IN  /\ files' = [files EXCEPT ![p].request = saved.file]
           /\ loc' = [loc EXCEPT ![p].prompt = FullPrompt(p, page_data_json),
                                 ![p].chat_id = EmptyChatId,
                                 ![p].attempt = 0]
    /\ pc' = [pc EXCEPT ![p] = "attempt"]
    /\ UNCHANGED <<direct, focus, doc, result, ready, running, outer, nfinished, mainpc, saves, failures>>

\* the answers the backend may give to a chat call of page p
AnswersFor(p) ==
    IF p = focus THEN ChatAnswers(loc[p].original_text_fragments)
    ELSE BasicChatAnswers(loc[p].original_text_fragments)

\* Step 5, one iteration of the retry loop: the chat call and what follows
ChatAttempt(p) ==
    /\ running = p /\ pc[p] = "attempt"
    /\ \E backend_ok \in CallOutcomes(p), answer \in AnswersFor(p) :
        LET sent == ChatIdToSend(loc[p].chat_id)
            call == Call(loc[p].attempt, loc[p].prompt, sent, answer)
            body == AttemptBody(loc[p].attempt, answer.response, files[p].response)
            called == [loc EXCEPT ![p].ncalls = @ + 1,
                                  ![p].lastcall = call,
                                  ![p].prev_chat_id = loc[p].lastcall.answer.chat_id]
        IN  IF ~backend_ok
            THEN \* the chat call raises
                 /\ answer = Answer(PyNone, NoneChatId)
                 /\ loc' = [called EXCEPT ![p].chat_id = sent]
                 /\ Fail(p, Exc("BackendError", "chat"))
                 /\ UNCHANGED files
            ELSE /\ files' = [files EXCEPT ![p].response = body.file]
                 /\ CASE body.exit = "raise" ->
                            /\ loc' = [called EXCEPT ![p].chat_id = answer.chat_id,
                                                     ![p].response = body.response]
                            /\ Fail(p, Exc(body.exc, "send_page_to_llm"))
                      [] body.exit = "return" ->
                            /\ loc' = [called EXCEPT ![p].chat_id = answer.chat_id,
                                                     ![p].response = body.response,
                                                     ![p].prompt = IF json_loads(body.response.text).ok
                                                                   THEN @ ELSE CorrectivePrompt,
                                                     ![p].translated_page_data_str = body.val]
                            /\ pc' = [pc EXCEPT ![p] = "parse"]
                            /\ UNCHANGED <<result, failures>>
                      [] body.exit = "retry" ->
                            /\ loc' = [called EXCEPT ![p].chat_id = answer.chat_id,
                                                     ![p].response = body.response,
                                                     ![p].prompt = CorrectivePrompt,
                                                     ![p].attempt = @ + 1]
                            /\ UNCHANGED <<pc, result, failures>>
    /\ UNCHANGED <<direct, focus, doc, ready, running, outer, nfinished, mainpc, saves>>

\* variant: what send_page_to_llm returned goes to the reintegration loop
\* as it is
ParseResponseUnchecked(p) ==
    /\ running = p /\ pc[p] = "parse"
    /\ loc' = [loc EXCEPT ![p].translated_page_data = loc[p].translated_page_data_str]
    /\ pc' = [pc EXCEPT ![p] = "reintegrate"]
    /\ UNCHANGED <<result, failures>>
    /\ UNCHANGED <<direct, focus, doc, files, ready, running, outer, nfinished, mainpc, saves>>

\* Step 5, parse_llm_response on what send_page_to_llm returned
ParseResponse(p) ==
    /\ running = p /\ pc[p] = "parse"
    /\ LET parsed == parse_llm_response(loc[p].translated_page_data_str)
       IN  IF parsed.exc # NoExc
           THEN /\ Fail(p, parsed.exc)
                /\ UNCHANGED loc
           ELSE /\ loc' = [loc EXCEPT ![p].translated_page_data = parsed.val]
                /\ pc' = [pc EXCEPT ![p] = "reintegrate"]
                /\ UNCHANGED <<result, failures>>
    /\ UNCHANGED <<direct, focus, doc, files, ready, running, outer, nfinished, mainpc, saves>>

\* Step 6: the reintegration loop, on the detached fragment list
ReintegratePage(p) ==
    /\ running = p /\ pc[p] = "reintegrate"
    /\ LET done == Reintegrate(loc[p].original_text_fragments,
                               loc[p].translated_page_data.body.entries)
       IN  /\ loc' = [loc EXCEPT ![p].original_text_fragments = done.fragments]
           /\ IF done.exc # NoExc
              THEN Fail(p, done.exc)
              ELSE /\ pc' = [pc EXCEPT ![p] = "return"]
                   /\ result' = [result EXCEPT ![p] = Returned]
                   /\ UNCHANGED failures
    /\ UNCHANGED <<direct, focus, doc, files, ready, running, outer, nfinished, mainpc, saves>>

\* variant: a Task that ends with an exception takes the Tasks not yet
\* started off the queue
TaskFinishAbortOthers(p) ==
    /\ running = p /\ pc[p] \in {"return", "raise"}
    /\ pc' = [pc EXCEPT ![p] = "finished"]
    /\ loc' = [loc EXCEPT ![p] = NoLocals]
    /\ running' = 0
    /\ ready' = IF pc[p] = "raise"
                THEN Append(SelectSeq(ready, LAMBDA h : h.h # "step"), Handle("done_callback", p))
                ELSE Append(ready, Handle("done_callback", p))
    /\ UNCHANGED <<direct, focus, doc, result, files, outer, nfinished, mainpc, saves, failures>>

\* process_page is over: its frame is gone, the Task is done and its done
\* callback (gather's) is scheduled
TaskFinish(p) ==
    /\ running = p /\ pc[p] \in {"return", "raise"}
    /\ pc' = [pc EXCEPT ![p] = "finished"]
    /\ loc' = [loc EXCEPT ![p] = NoLocals]
    /\ running' = 0
    /\ ready' = Append(ready, Handle("done_callback", p))
    /\ UNCHANGED <<direct, focus, doc, result, files, outer, nfinished, mainpc, saves, failures>>

(***************************************************************************)
(* asyncio.gather's _done_callback for the Task of page p                  *)
(* (return_exceptions is False).                                           *)
(***************************************************************************)
\* variant: gather collects exceptions as results (return_exceptions=True)
DoneCallbackCollecting(p) ==
    /\ running = 0
    /\ ready # <<>>
    /\ Head(ready) = Handle("done_callback", p)
    /\ nfinished' = nfinished + 1
    /\ IF outer.state = "pending" /\ nfinished + 1 = NumPages
       THEN /\ outer' = [ state |-> "result", exc |-> NoExc, page |-> 0 ]
            /\ ready' = Append(Tail(ready), Handle("wakeup", 0))
       ELSE /\ ready' = Tail(ready)
            /\ UNCHANGED outer
    /\ UNCHANGED <<direct, focus, doc, pc, loc, result, files, running, mainpc, saves, failures>>

DoneCallback(p) ==
    /\ running = 0
    /\ ready # <<>>
    /\ Head(ready) = Handle("done_callback", p)
    /\ nfinished' = nfinished + 1
    /\ IF outer.state # "pending"
       THEN /\ ready' = Tail(ready)
            /\ UNCHANGED outer
       ELSE IF result[p].state = "raised"
       THEN /\ outer' = [ state |-> "exception", exc |-> result[p].exc, page |-> p ]
            /\ ready' = Append(Tail(ready), Handle("wakeup", 0))
       ELSE IF nfinished + 1 = NumPages
       THEN /\ outer' = [ state |-> "result", exc |-> NoExc, page |-> 0 ]
            /\ ready' = Append(Tail(ready), Handle("wakeup", 0))
       ELSE /\ ready' = Tail(ready)
            /\ UNCHANGED outer
    /\ UNCHANGED <<direct, focus, doc, pc, loc, result, files, running, mainpc, saves, failures>>

(***************************************************************************)
(* process_translation after the await: the exception of gather leaves     *)
(* process_translation, or the document is saved.                          *)
(***************************************************************************)
ResumeRaise ==
    /\ running = 0 /\ mainpc = "gather"
    /\ ready # <<>> /\ Head(ready) = Handle("wakeup", 0)
    /\ outer.state = "exception"
    /\ ready' = Tail(ready)
    /\ mainpc' = "raised"
    /\ UNCHANGED <<direct, focus, doc, pc, loc, result, files, running, outer, nfinished, saves, failures>>

ResumeSave ==
    /\ running = 0 /\ mainpc = "gather"
    /\ ready # <<>> /\ Head(ready) = Handle("wakeup", 0)
    /\ outer.state = "result"
    /\ ready' = Tail(ready)
    /\ saves' = saves + 1
    /\ mainpc' = "done"
    /\ UNCHANGED <<direct, focus, doc, pc, loc, result, files, running, outer, nfinished, failures>>

Next ==
    \/ StartTranslation
    \/ \E p \in Pages : RunTask(p)
    \/ \E p \in Pages : ExtractText(p)
    \/ \E p \in Pages : ExtractFragments(p)
    \/ \E p \in Pages : GetParagraphs(p)
    \/ \E p \in Pages : TranslatePage(p)
    \/ \E p \in Pages : JsonifyPage(p)
    \/ \E p \in Pages : SendPage(p)
    \/ \E p \in Pages : ChatAttempt(p)
    \/ \E p \in Pages : ParseResponse(p)
    \/ \E p \in Pages : ReintegratePage(p)
    \/ \E p \in Pages : TaskFinish(p)
    \/ \E p \in Pages : DoneCallback(p)
    \/ ResumeRaise
    \/ ResumeSave

Spec == Init /\ [][Next]_vars

(***************************************************************************)
(* Direct calls of the pure methods, on a translator whose pipeline is not *)
(* started.                                                                *)
(***************************************************************************)
\* the pipeline as Init leaves it
PipelineIdle ==
    /\ focus = 1
    /\ doc = [p \in Pages |-> FillerContent]
    /\ pc = [p \in Pages |-> "created"]
    /\ loc = [p \in Pages |-> NoLocals]
    /\ result = [p \in Pages |-> Pending]
    /\ files = [p \in Pages |-> [request |-> NoFile, response |-> NoFile]]
    /\ ready = <<>>
    /\ running = 0
    /\ outer = [ state |-> "none", exc |-> NoExc, page |-> 0 ]
    /\ nfinished = 0
    /\ mainpc = "start"
    /\ saves = 0
    /\ failures = <<>>

pipeline == <<focus, doc, pc, loc, result, files, ready, running, outer, nfinished, mainpc,
              saves, failures>>

\* the characters of the strings handed to preprocess_text
Alphabet == { "a", "|", "bullet", " ", "\t", "\n" }

NormInit ==
    /\ PipelineIdle
    /\ NoLoggerCalls /\ NoParseCall /\ NoReintegrateCall
    /\ text \in SeqsUpTo(Alphabet, MaxLen)
    /\ normalized = <<>>
    /\ page_fragments = <<>> /\ extracted = NotReturned

\* preprocess_text is called on text, then on what it returned
Preprocess ==
    /\ Len(normalized) < 2
    /\ text' = preprocess_text(text)
    /\ normalized' = Append(normalized, preprocess_text(text))
    /\ UNCHANGED <<pipeline, logger_vars, llm_text, parse_outcome, reint_vars, page_fragments, extracted>>

NormNext == Preprocess

NormSpec == NormInit /\ [][NormNext]_vars

\* the texts the engine's fragments may hold: none, noise only, whitespace
\* only, clean text, text with noise and a run of spaces
FragmentTexts == { <<>>, <<"|">>, <<" ">>, <<"a">>, <<"|", "b", " ", " ", "c">> }

ExtractInit ==
    /\ PipelineIdle
    /\ NoLoggerCalls /\ NoParseCall /\ NoReintegrateCall
    /\ text = <<>> /\ normalized = <<>>
    /\ page_fragments \in SeqsUpTo(FragmentTexts, MaxEngineFrags)
    /\ extracted = NotReturned

\* extract_text_fragments_from_page(page): the returned dictionary
extract_text_fragments_from_page(page_number, fragments) ==
    [ returned |-> TRUE, page_number |-> page_number,
      text_fragments |-> ProcessedFragments(fragments) ]

ExtractDirect ==
    /\ ~extracted.returned
    /\ extracted' = extract_text_fragments_from_page(1, page_fragments)
    /\ UNCHANGED <<pipeline, logger_vars, llm_text, parse_outcome, reint_vars, text, normalized, page_fragments>>

ExtractNext == ExtractDirect

ExtractSpec == ExtractInit /\ [][ExtractNext]_vars

(***************************************************************************)
(* The class SexyLogger of src/SexyLogger_backup_2024-10-10_2_57_pm.py:    *)
(* constructor calls and reset_logger, in any order.                       *)
(***************************************************************************)
\* the arguments of a constructor call
LoggerArgs ==
    [ name : {"a", "b"}, file_logging : BOOLEAN, console_logging : BOOLEAN ]

\* what super().__new__(cls) returns: an object without attributes
NewObject ==
    [ initialized |-> FALSE, inits |-> 0, name |-> "",
      file_logging |-> FALSE, console_logging |-> FALSE,
      handlers |-> <<>>, records |-> <<>>, file_handler |-> 0, console_handler |-> 0,
      propagate |-> TRUE ]

\* self.info(msg): the level is INFO, the record goes to every handler the
\* logger has
logger_info(obj) ==
    [ obj EXCEPT !.records = [ i \in 1..Len(obj.records) |-> obj.records[i] + 1 ] ]

\* self.addHandler(handler) with a handler that has emitted nothing
addHandler(obj, kind) ==
    [ obj EXCEPT !.handlers = Append(@, kind), !.records = Append(@, 0) ]

\* setup_file_handler: a file handler is added, then self.info sends the
\* "Log started" record through every handler the logger has; the handler
\* it returns is the last of obj.handlers
setup_file_handler(obj) == logger_info(addHandler(obj, "file"))

\* setup_console_handler: a console handler is added; the handler it
\* returns is the last of obj.handlers
setup_console_handler(obj) == addHandler(obj, "console")

\* the records emitted by the handlers self.file_handler and
\* self.console_handler refer to
file_lines(obj) == IF obj.file_handler = 0 THEN 0 ELSE obj.records[obj.file_handler]
console_lines(obj) == IF obj.console_handler = 0 THEN 0 ELSE obj.records[obj.console_handler]

\* variant: __init__ without the _initialized guard
SexyLogger_init_unguarded(obj, args) ==
    LET base == [ obj EXCEPT !.name = args.name, !.handlers = <<>>, !.records = <<>>,
                             !.file_logging = args.file_logging,
                             !.console_logging = args.console_logging,
                             !.inits = @ + 1 ]
        filed == [ setup_file_handler(base) EXCEPT !.file_handler = Len(base.handlers) + 1 ]
        configured == [ setup_console_handler(filed) EXCEPT
                          !.console_handler = Len(filed.handlers) + 1 ]
    IN  [ configured EXCEPT !.propagate = FALSE, !.initialized = TRUE ]

\* __init__(self, name, ..., file_logging, console_logging, ...)
SexyLogger_init(obj, args) ==
    IF obj.initialized THEN obj
    ELSE LET base == [ obj EXCEPT !.name = args.name, !.handlers = <<>>, !.records = <<>>,
                                  !.file_logging = args.file_logging,
                                  !.console_logging = args.console_logging,
                                  !.inits = @ + 1 ]
             filed == [ setup_file_handler(base) EXCEPT !.file_handler = Len(base.handlers) + 1 ]
             configured == [ setup_console_handler(filed) EXCEPT
                               !.console_handler = Len(filed.handlers) + 1 ]
         IN  [ configured EXCEPT !.propagate = FALSE, !.initialized = TRUE ]

\* variant: after a reset __new__ hands out the object made last
SexyLogger_new_reuse(instance, objects) ==
    IF instance = 0
    THEN IF objects = <<>>
         THEN [ instance |-> 1, objects |-> <<NewObject>> ]
         ELSE [ instance |-> Len(objects), objects |-> objects ]
    ELSE [ instance |-> instance, objects |-> objects ]

\* __new__(cls, ...): the index of the object it returns, and the objects
SexyLogger_new(instance, objects) ==
    IF instance = 0
    THEN [ instance |-> Len(objects) + 1, objects |-> Append(objects, NewObject) ]
    ELSE [ instance |-> instance, objects |-> objects ]

ConstructCall(args, ret) == [ op |-> "construct", args |-> args, ret |-> ret ]
ResetCall ==
    [ op |-> "reset", args |-> [ name |-> "", file_logging |-> FALSE, console_logging |-> FALSE ],
      ret |-> 0 ]

LoggerInit ==
    /\ PipelineIdle
    /\ text = <<>> /\ normalized = <<>>
    /\ page_fragments = <<>> /\ extracted = NotReturned
    /\ NoLoggerCalls /\ NoParseCall /\ NoReintegrateCall

\* SexyLogger(name, ...): __new__, then __init__ on the object it returned
Construct ==
    /\ Len(logger_calls) < MaxLoggerCalls
    /\ \E args \in LoggerArgs :
        LET made == SexyLogger_new(cls_instance, loggers)
        IN  /\ cls_instance' = made.instance
            /\ loggers' = [ made.objects EXCEPT ![made.instance] = SexyLogger_init(@, args) ]
            /\ logger_calls' = Append(logger_calls, ConstructCall(args, made.instance))
    /\ UNCHANGED <<pipeline, llm_text, parse_outcome, reint_vars, text, normalized, page_fragments, extracted,
                   last_log>>

\* SexyLogger.reset_logger()
ResetLogger ==
    /\ Len(logger_calls) < MaxLoggerCalls
    /\ cls_instance' = 0
    /\ logger_calls' = Append(logger_calls, ResetCall)
    /\ UNCHANGED <<pipeline, llm_text, parse_outcome, reint_vars, text, normalized, page_fragments, extracted,
                   loggers, last_log>>

LoggerNext == Construct \/ ResetLogger

LoggerSpec == LoggerInit /\ [][LoggerNext]_vars

(***************************************************************************)
(* Log operations on a logger.  An output is the number of records its     *)
(* handler has emitted.                                                    *)
(***************************************************************************)
\* the values of a log_to_console or log_to_file argument
Overrides == { "None", "True", "False" }

\* "if log_to_x is None: log_to_x = self.x_logging"
Effective(arg, default) == IF arg = "None" THEN default ELSE arg = "True"

HasHandler(obj, h) == \E i \in 1..Len(obj.handlers) : obj.handlers[i] = h

\* handler.handle(record): the handler at index h emits the record
handle(obj, h) == [ obj EXCEPT !.records[h] = @ + 1 ]

\* log_with_box(log_message, log_to_console=..., log_to_file=...): the
\* record goes straight to self.console_handler and to self.file_handler
log_with_box(obj, log_to_console, log_to_file) ==
    LET to_console == Effective(log_to_console, obj.console_logging)
        to_file == Effective(log_to_file, obj.file_logging)
        consoled == IF to_console /\ obj.console_handler # 0
                    THEN handle(obj, obj.console_handler) ELSE obj
    IN  IF to_file /\ consoled.file_handler # 0
        THEN handle(consoled, consoled.file_handler) ELSE consoled

LogOp(op, target, log_to_console, log_to_file) ==
    [ op |-> op, target |-> target, log_to_console |-> log_to_console,
      log_to_file |-> log_to_file,
      file_lines |-> file_lines(loggers[target]),
      console_lines |-> console_lines(loggers[target]),
      n |-> last_log.n + 1 ]

LogInit == LoggerInit

\* the one constructor call that makes the logger
LogConstruct == logger_calls = <<>> /\ Construct

\* logger.info(msg)
Info ==
    /\ last_log.n < MaxLogOps
    /\ \E target \in 1..Len(loggers) :
          /\ loggers' = [ loggers EXCEPT ![target] = logger_info(@) ]
          /\ last_log' = LogOp("info", target, "None", "None")
    /\ UNCHANGED <<pipeline, llm_text, parse_outcome, reint_vars, text, normalized, page_fragments, extracted,
                   cls_instance, logger_calls>>

\* logger.log_with_box(msg, ...)
LogWithBox ==
    /\ last_log.n < MaxLogOps
    /\ \E target \in 1..Len(loggers), log_to_console \in Overrides, log_to_file \in Overrides :
          /\ loggers' = [ loggers EXCEPT ![target] = log_with_box(@, log_to_console, log_to_file) ]
          /\ last_log' = LogOp("box", target, log_to_console, log_to_file)
    /\ UNCHANGED <<pipeline, llm_text, parse_outcome, reint_vars, text, normalized, page_fragments, extracted,
                   cls_instance, logger_calls>>

\* logger.setup_file_handler(log_dir, log_filename) called on a logger:
\* what it returns is dropped
SetupFileHandler ==
    /\ last_log.n < MaxLogOps
    /\ \E target \in 1..Len(loggers) :
          /\ loggers' = [ loggers EXCEPT ![target] = setup_file_handler(@) ]
          /\ last_log' = LogOp("setup_file_handler", target, "None", "None")
    /\ UNCHANGED <<pipeline, llm_text, parse_outcome, reint_vars, text, normalized, page_fragments, extracted,
                   cls_instance, logger_calls>>

\* logger.setup_console_handler() called on a logger: what it returns is
\* dropped
SetupConsoleHandler ==
    /\ last_log.n < MaxLogOps
    /\ \E target \in 1..Len(loggers) :
          /\ loggers' = [ loggers EXCEPT ![target] = setup_console_handler(@) ]
          /\ last_log' = LogOp("setup_console_handler", target, "None", "None")
    /\ UNCHANGED <<pipeline, llm_text, parse_outcome, reint_vars, text, normalized, page_fragments, extracted,
                   cls_instance, logger_calls>>

LogNext == LogConstruct \/ Info \/ LogWithBox \/ SetupFileHandler \/ SetupConsoleHandler

LogSpec == LogInit /\ [][LogNext]_vars

(***************************************************************************)
(* Direct calls of parse_llm_response.                                     *)
(***************************************************************************)
\* the fragment lists the response entries are built for
ResponseFragments == { <<>>, << <<"a">> >>, << <<"a">>, <<"b", " ", "c">> >> }

\* the texts handed to parse_llm_response: every body as a plain text, the
\* bodies without quotes or backslashes as a string literal, and the objects
\* as a string literal with no, one or two layers of escapes
ResponseTexts ==
    LET objects == UNION { ObjectBodies(frags) : frags \in ResponseFragments }
        bare == { BlankBody, ProseBody, NumberBody }
    IN  { Plain(b) : b \in bare \cup { BadEscapeBody } \cup objects }
        \cup { Literal(b, 1) : b \in bare }
        \cup { Literal(b, esc) : b \in objects, esc \in 0..2 }

ParseInit ==
    /\ PipelineIdle
    /\ text = <<>> /\ normalized = <<>>
    /\ page_fragments = <<>> /\ extracted = NotReturned
    /\ NoLoggerCalls /\ NoReintegrateCall
    /\ llm_text \in { PyStr(t) : t \in ResponseTexts }
    /\ parse_outcome = NotParsed

ParseDirect ==
    /\ ~parse_outcome.called
    /\ LET parsed == parse_llm_response(llm_text)
       IN  parse_outcome' = [ called |-> TRUE, exc |-> parsed.exc, val |-> parsed.val ]
    /\ UNCHANGED <<pipeline, logger_vars, text, normalized, page_fragments, extracted, llm_text,
                   reint_vars>>

ParseNext == ParseDirect

ParseSpec == ParseInit /\ [][ParseNext]_vars

(***************************************************************************)
(* Direct calls of reintegrate_translated_fragments, the method that       *)
(* writes translated texts into the fragment objects of the Document.      *)
(* process_translation and process_page never call it.                     *)
(***************************************************************************)
\* an item of reassembled_pages: a page number and the dict of that page
PageItem(page_number, page_data) == [ page_number |-> page_number, page_data |-> page_data ]

\* the arguments handed to the method for a Document: no page, one page, or
\* every two pages in either order, each with a dict that holds an entry
\* list for the page's fragments or lacks the "text_fragments" key
ReassembledPages(document) ==
    LET items(p) == { PageItem(p, data) : data \in ObjectBodies(document[p]) }
    IN  { <<>> }
        \cup { <<i>> : i \in UNION { items(p) : p \in Pages } }
        \cup UNION { UNION { { <<i, j>> : i \in items(p), j \in items(q) } :
                              q \in Pages \ {p} } :
                      p \in Pages }

\* "for fragment, translated_fragment in zip(fragments, ...)": the fragment
\* takes the translated text of an entry that holds one
RECURSIVE AssignTranslatedFrom(_, _, _)
AssignTranslatedFrom(i, fragments, entries) ==
    IF i > Min(Len(fragments), Len(entries))
    THEN fragments
    ELSE AssignTranslatedFrom(i + 1,
             IF entries[i].translated_text_fragment.present
             THEN [ fragments EXCEPT ![i] = entries[i].translated_text_fragment.text ]
             ELSE fragments,
             entries)

\* reintegrate_translated_fragments(reassembled_pages) on the Document
RECURSIVE reintegrate_translated_fragments(_, _)
reintegrate_translated_fragments(document, items) ==
    IF items = <<>>
    THEN [ exc |-> NoExc, document |-> document ]
    ELSE LET item == Head(items) IN
         IF ~item.page_data.tf
         THEN [ exc |-> Exc("KeyError", "text_fragments"), document |-> document ]
         ELSE reintegrate_translated_fragments(
                  [ document EXCEPT ![item.page_number] =
                        AssignTranslatedFrom(1, @, item.page_data.entries) ],
                  Tail(items))

ReintegrateInit ==
    /\ focus = 1
    /\ doc \in [Pages -> PageContents]
    /\ pc = [p \in Pages |-> "created"]
    /\ loc = [p \in Pages |-> NoLocals]
    /\ result = [p \in Pages |-> Pending]
    /\ files = [p \in Pages |-> [request |-> NoFile, response |-> NoFile]]
    /\ ready = <<>>
    /\ running = 0
    /\ outer = [ state |-> "none", exc |-> NoExc, page |-> 0 ]
    /\ nfinished = 0
    /\ mainpc = "start"
    /\ saves = 0
    /\ failures = <<>>
    /\ text = <<>> /\ normalized = <<>>
    /\ page_fragments = <<>> /\ extracted = NotReturned
    /\ NoLoggerCalls /\ NoParseCall
    /\ reassembled_pages \in ReassembledPages(doc)
    /\ reintegrated = NotReintegrated

ReintegrateDirect ==
    /\ ~reintegrated.called
    /\ LET done == reintegrate_translated_fragments(doc, reassembled_pages)
       IN  /\ doc' = done.document
           /\ reintegrated' = [ called |-> TRUE, exc |-> done.exc ]
    /\ UNCHANGED <<focus, pc, loc, result, files, ready, running, outer, nfinished, mainpc,
                   saves, failures>>
    /\ UNCHANGED <<text, normalized, page_fragments, extracted, logger_vars, llm_text,
                   parse_outcome, reassembled_pages>>

ReintegrateNext == ReintegrateDirect

ReintegrateSpec == ReintegrateInit /\ [][ReintegrateNext]_vars

(***************************************************************************)
(* Properties.                                                             *)
(***************************************************************************)
\* the pages that have made a chat call in their running send_page_to_llm
Called(p) == loc[p].ncalls > 0

\* what the loop did with the last answer of page p
LastDecoded(p) == decode_unicode_escapes(loc[p].lastcall.answer.response)
LastParsed(p) == json_loads(LastDecoded(p).val.text)
\* the last chat call of page p returned and its text does not parse
LastUnparsable(p) ==
    Called(p) /\ loc[p].lastcall.answer.response.ty = "str"
    /\ LastDecoded(p).ok /\ ~LastParsed(p).ok

\* C1: a page makes at most max_retries + 1 chat calls, numbered from 0 in
\* order, and after the call with index max_retries the retry loop is left:
\* no further chat call of that page is possible.
C1_RetryTermination ==
    \A p \in Pages :
        /\ loc[p].ncalls <= max_retries + 1
        /\ Called(p) => loc[p].lastcall.attempt = loc[p].ncalls - 1
        /\ loc[p].ncalls = max_retries + 1 => pc[p] # "attempt"
        /\ pc[p] = "finished" => ~ENABLED ChatAttempt(p)

\* C1 witness: a page has made its third chat call and left the loop
C1_ThreeCallsMade ==
    \E p \in Pages : loc[p].ncalls = max_retries + 1 /\ pc[p] \in {"parse", "raise"}

\* the last answer of page p parses to an object without / with the
\* "text_fragments" key
LastIsObject(p) ==
    Called(p) /\ loc[p].lastcall.answer.response.ty = "str"
    /\ LastDecoded(p).ok /\ LastParsed(p).ok /\ LastParsed(p).val.ty = "dict"
LastLacksKey(p) == LastIsObject(p) /\ ~LastParsed(p).val.body.tf
LastValid(p) == LastIsObject(p) /\ LastParsed(p).val.body.tf

\* the last chat call of page p returned a text that is no valid response:
\* it cannot be decoded, does not parse, or parses to something that is no
\* object holding the "text_fragments" key
LastFailsValidation(p) ==
    Called(p) /\ loc[p].lastcall.answer.response.ty = "str" /\ ~LastValid(p)

\* C2 as claimed: when the response of attempt n < max_retries fails
\* validation, attempt n + 1 is the next thing the page does, and every chat
\* call after the first of a page is passed exactly the chat id the call
\* before it returned.
C2_SameSessionExactly ==
    \A p \in Pages :
        /\ loc[p].ncalls >= 2 => loc[p].lastcall.chat_id = loc[p].prev_chat_id
        /\ (LastFailsValidation(p) /\ loc[p].lastcall.attempt < max_retries) =>
              /\ pc[p] = "attempt"
              /\ loc[p].attempt = loc[p].lastcall.attempt + 1

\* C3 as claimed: an answer that parses but lacks the "text_fragments" key
\* is retried with the corrective prompt while attempts remain, and ends
\* the page only at the last attempt.
C3_MissingKeyRetried ==
    \A p \in Pages :
        LastLacksKey(p) =>
            IF loc[p].lastcall.attempt < max_retries
            THEN /\ pc[p] = "attempt"
                 /\ loc[p].attempt = loc[p].lastcall.attempt + 1
                 /\ loc[p].prompt = CorrectivePrompt
            ELSE pc[p] \in {"parse", "raise"}

\* C4 as claimed: after a valid answer send_page_to_llm has written the
\* response file, has returned the parsed object without raising, and the
\* loop is left.
C4_ValidResponseReturned ==
    \A p \in Pages :
        LastValid(p) =>
            /\ files[p].response.writes = 1
            /\ loc[p].translated_page_data_str = LastParsed(p).val
            /\ pc[p] # "attempt"
            /\ ~(pc[p] = "raise" /\ result[p].exc.msg = "send_page_to_llm")

\* C5 as claimed: when the answer of the last attempt does not parse
\* either, the exception that ends the page is an alignment-exhausted
\* failure carrying the last response text.
C5_ExhaustedCarriesRaw ==
    \A p \in Pages :
        (pc[p] = "raise" /\ loc[p].ncalls = max_retries + 1 /\ LastUnparsable(p)) =>
            /\ result[p].exc.type = "AlignmentExhausted"
            /\ result[p].exc.payload = loc[p].response

\* the reintegration loop of page p has run; the detached fragment texts it
\* started from; the response entries it paired them with
Reintegrated(p) == loc[p].translated_page_data.ty = "dict" /\ pc[p] \in {"return", "raise"}
Originals(p) == ProcessedFragments(doc[p])
Entries(p) == loc[p].translated_page_data.body.entries
Paired(p) == 1..Min(Len(Originals(p)), Len(Entries(p)))
ClaimsOther(p, i) ==
    /\ Entries(p)[i].original_text_fragment.present
    /\ Entries(p)[i].original_text_fragment.text # Originals(p)[i]

\* C6 as claimed: for every index whose entry claims another original text
\* the page fails with the mismatch error and the fragment keeps its text.
C6_MismatchReported ==
    \A p \in Pages :
        Reintegrated(p) =>
            \A i \in Paired(p) :
                ClaimsOther(p, i) =>
                    /\ result[p] = Raised(MismatchExc)
                    /\ loc[p].original_text_fragments[i] = Originals(p)[i]

C8_FragmentsReplaced ==
    \A p \in Pages :
        ( /\ pc[p] \in {"return", "raise"}
          /\ loc[p].ncalls = 1 /\ LastValid(p)
          /\ LastParsed(p).val.body.entries = AlignedEntries(Originals(p))
          /\ Len(Originals(p)) = Len(doc[p]) ) =>
            /\ result[p] = Returned
            /\ \A i \in 1..Len(doc[p]) :
                  doc[p][i] = LastParsed(p).val.body.entries[i].translated_text_fragment.text

\* nothing is left to run
Quiescent == ready = <<>> /\ running = 0 /\ mainpc # "start"

\* C9: the document is saved at most once, only when every page task has
\* finished; a run in which every page succeeded ends with exactly one save.
C9_SaveOnceAfterJoin ==
    /\ saves <= 1
    /\ saves = 1 => /\ \A p \in Pages : pc[p] = "finished"
                    /\ outer.state = "result" /\ nfinished = NumPages
    /\ (Quiescent /\ \A p \in Pages : result[p] = Returned) => saves = 1

\* C9 witness: the document was saved
C9_Saved == saves = 1 /\ mainpc = "done"

\* C10: once a page has failed the document is not saved, and the run ends
\* with process_translation raising the exception of the page that failed
\* first.
C10_FirstFailurePropagates ==
    failures # <<>> =>
        /\ saves = 0
        /\ mainpc # "done"
        /\ Quiescent =>
              /\ mainpc = "raised"
              /\ outer.state = "exception"
              /\ outer.page = failures[1]
              /\ outer.exc = result[failures[1]].exc

\* C10 witness: two pages failed and the run ended with the exception of
\* the first of them, a later page having failed in another way
C10_RaisedFirstOfTwo ==
    /\ Quiescent /\ mainpc = "raised"
    /\ Len(failures) >= 2
    /\ result[failures[1]].exc # result[failures[2]].exc

\* the request of page p and the fragment list it was built from
Request(p) == loc[p].page_data.page_data
RequestBuilt(p) == pc[p] \in {"send", "attempt", "parse"}

\* C11: the request jsonify_page_fragments built for a page has one entry
\* per fragment of its input list, entry i holds input fragment i as its
\* original_text_fragment, and every translated_text_fragment is empty.
C11_RequestAligned ==
    \A p \in Pages :
        RequestBuilt(p) =>
            /\ Len(Request(p).text_fragments) = Len(loc[p].original_text_fragments)
            /\ \A i \in 1..Len(loc[p].original_text_fragments) :
                  /\ Request(p).text_fragments[i].original_text_fragment
                        = loc[p].original_text_fragments[i]
                  /\ Request(p).text_fragments[i].translated_text_fragment = <<>>

\* C11 witness: a request was built from two different fragments
C11_TwoFragmentRequest ==
    \E p \in Pages :
        /\ pc[p] = "send"
        /\ Len(loc[p].original_text_fragments) = 2
        /\ loc[p].original_text_fragments[1] # loc[p].original_text_fragments[2]
        /\ Len(Request(p).text_fragments) = 2

\* C12 as claimed: the list extract_text_fragments_from_page returns has one
\* entry per engine fragment of the page, in order: entry i is the
\* normalised text of engine fragment i, the empty string when nothing is
\* left of it, and no fragment is dropped.
C12_PositionsPreserved ==
    extracted.returned =>
        /\ Len(extracted.text_fragments) = Len(page_fragments)
        /\ \A i \in 1..Min(Len(extracted.text_fragments), Len(page_fragments)) :
              extracted.text_fragments[i] = preprocess_text(page_fragments[i])

\* C17: normalising a normalised string gives the same string.
C17_NormalizeIdempotent ==
    Len(normalized) = 2 => normalized[2] = normalized[1]

\* C17 witness: a string with noise between two spaces was normalised twice
C17_NoisyNormalizedTwice ==
    /\ Len(normalized) = 2
    /\ normalized[1] = <<"a", " ", "a">>
    /\ text = normalized[2]

\* what belongs to page p alone
PageState(p) == <<pc[p], loc[p], result[p], files[p]>>

\* C13: the outcome of a page is that of the page run alone.  A step that
\* is not a step of the Task of page p changes nothing of page p, no step
\* changes the Document, and once the reintegration loop of a page is over
\* its fragment texts and its outcome are those the loop computes from the
\* page's own fragments and the page's own response.
C13_PagesIsolated ==
    /\ [][ /\ doc' = doc
           /\ \A p \in Pages :
                 (running # p /\ running' # p) => PageState(p)' = PageState(p) ]_vars
    /\ [](\A p \in Pages :
             Reintegrated(p) =>
                 LET alone == Reintegrate(Originals(p), Entries(p))
                 IN  /\ loc[p].original_text_fragments = alone.fragments
                     /\ result[p] = IF alone.exc = NoExc THEN Returned ELSE Raised(alone.exc))

\* C13 witness: two pages have been run, one ended in an exception and the
\* other then returned from its reintegration loop
C13_TwoOutcomes ==
    \E p, q \in Pages :
        /\ pc[p] = "finished" /\ result[p].state = "raised"
        /\ pc[q] = "return" /\ Reintegrated(q)

\* C14: the first chat call of a page is passed the empty chat id, and
\* every later chat call of the page is passed what the page's own call
\* before it returned (the empty chat id for a returned None).
C14_SessionPerPage ==
    \A p \in Pages :
        Called(p) =>
            IF loc[p].ncalls = 1
            THEN loc[p].lastcall.chat_id = EmptyChatId
            ELSE loc[p].lastcall.chat_id
                     = (IF loc[p].prev_chat_id = NoneChatId THEN EmptyChatId
                        ELSE loc[p].prev_chat_id)

\* C14 witness: a page made its first chat call after an earlier page was
\* handed a chat id and finished
C14_SecondPageFirstCall ==
    \E p, q \in Pages :
        /\ p < q /\ pc[p] = "finished" /\ files[p].request.exists
        /\ loc[q].ncalls = 1

\* the order of the stages of process_page, and the steps between them
StageRank(stage) ==
    CASE stage = "created" -> 0
      [] stage = "extract_text" -> 1
      [] stage = "extract_fragments" -> 2
      [] stage = "paragraphs" -> 3
      [] stage = "translate" -> 4
      [] stage = "jsonify" -> 5
      [] stage = "send" -> 6
      [] stage = "attempt" -> 7
      [] stage = "parse" -> 8
      [] stage = "reintegrate" -> 9
      [] stage = "return" -> 10
      [] stage = "raise" -> 11
      [] stage = "finished" -> 12

StageStep(from, to) ==
    \/ to = "raise" /\ StageRank(from) \in 1..9 /\ from \notin {"paragraphs", "jsonify", "send"}
    \/ to = "finished" /\ from \in {"return", "raise"}
    \/ StageRank(to) = StageRank(from) + 1 /\ StageRank(to) <= 10

\* C15: a page goes through its stages in the fixed order, one stage after
\* the other; only the alignment stage takes more than one step; a stage
\* that fails ends the page.
C15_StageOrder ==
    [][ \A p \in Pages :
          /\ pc'[p] # pc[p] => StageStep(pc[p], pc'[p])
          /\ (pc'[p] = pc[p] /\ PageState(p)' # PageState(p)) =>
                 /\ pc[p] = "attempt"
                 /\ loc'[p].attempt = loc[p].attempt + 1
          /\ pc[p] = "raise" => pc'[p] \in {"raise", "finished"} ]_vars

\* C15 witness: a page went through all stages, with a retry in the
\* alignment stage
C15_AllStagesDone ==
    \E p \in Pages : pc[p] = "return" /\ loc[p].ncalls >= 2

\* C16: when the run is over every page has run to its own outcome,
\* whether or not another page failed.
C16_OtherPagesFinish ==
    (mainpc \in {"raised", "done"} \/ Quiescent) =>
        \A p \in Pages : pc[p] = "finished" /\ result[p].state \in {"returned", "raised"}

\* C16 witness: the run ended with the exception of a page, and a page run
\* after that page returned
C16_LaterPageReturned ==
    /\ mainpc = "raised"
    /\ \E p, q \in Pages :
          /\ p < q /\ failures = <<p>> /\ result[q] = Returned

\* C19: the chat call of attempt 0 is passed the full request of the page,
\* with the page's serialised data; the chat call of every later attempt is
\* passed the corrective prompt.
C19_PromptPerAttempt ==
    \A p \in Pages :
        Called(p) =>
            IF loc[p].lastcall.attempt = 0
            THEN loc[p].lastcall.prompt = FullPrompt(p, json_dumps(loc[p].page_data))
            ELSE loc[p].lastcall.prompt.kind = "corrective"

\* C19 witness: a page has made its third chat call
C19_ThirdPromptSent ==
    \E p \in Pages : loc[p].ncalls = 3 /\ loc[p].lastcall.attempt = 2

\* the constructor calls i < j with no reset_logger call between them
SameEpoch(i, j) ==
    /\ i < j
    /\ logger_calls[i].op = "construct" /\ logger_calls[j].op = "construct"
    /\ \A k \in i..j : logger_calls[k].op # "reset"

\* the first constructor call that returned the object of call j
FirstCallOf(j) ==
    CHOOSE i \in 1..j :
        /\ logger_calls[i].ret = logger_calls[j].ret
        /\ \A k \in 1..(i - 1) : logger_calls[k].ret # logger_calls[j].ret

\* C18: constructor calls with no reset_logger between them return the same
\* object; every object returned was initialised once, holds the two
\* handlers of that initialisation, and is configured by the arguments of
\* the first call that returned it.
C18_Singleton ==
    /\ \A i, j \in 1..Len(logger_calls) :
          SameEpoch(i, j) => logger_calls[i].ret = logger_calls[j].ret
    /\ \A j \in 1..Len(logger_calls) :
          logger_calls[j].op = "construct" =>
              LET obj == loggers[logger_calls[j].ret]
                  first == logger_calls[FirstCallOf(j)].args
              IN  /\ obj.initialized /\ obj.inits = 1
                  /\ obj.handlers = <<"file", "console">>
                  /\ obj.name = first.name
                  /\ obj.file_logging = first.file_logging
                  /\ obj.console_logging = first.console_logging

\* C18 witness: three constructor calls in a row, the later ones with other
\* arguments than the first
C18_ThreeCallsOneObject ==
    /\ Len(logger_calls) >= 3
    /\ SameEpoch(1, 3)
    /\ logger_calls[2].args # logger_calls[1].args
    /\ logger_calls[3].args # logger_calls[1].args
    /\ logger_calls[3].ret = logger_calls[1].ret

\* C20: a text that does not parse is reported by an Exception, with the
\* decode message unless the text is blank, and never by the missing-key
\* error; the missing-key error is a KeyError and is raised only for a text
\* that parsed, and for every parsed object without the key.
C20_ChecksInOrder ==
    parse_outcome.called =>
        LET parsed == json_loads(llm_text.text)
        IN  /\ ~parsed.ok =>
                  /\ parse_outcome.exc.type = "Exception"
                  /\ ~IsBlank(llm_text.text) =>
                        parse_outcome.exc.msg = "Failed to decode LLM response"
            /\ parse_outcome.exc.type = "KeyError" => parsed.ok
            /\ (parsed.ok /\ parsed.val.ty = "dict" /\ ~parsed.val.body.tf) =>
                  parse_outcome.exc.type = "KeyError"

\* C20 witness: a text without the key that does not parse was reported as
\* a decode failure
C20_DecodeFailureReported ==
    /\ parse_outcome.called
    /\ llm_text.text = Literal(ObjectBody(FALSE, <<>>), 2)
    /\ parse_outcome.exc.msg = "Failed to decode LLM response"

\* the chat call with the last index was made for page p and its response
\* does not parse
Exhausted(p) == LastUnparsable(p) /\ loc[p].lastcall.attempt = max_retries

\* C21: when the response of the attempt with index max_retries does not
\* parse either, send_page_to_llm raises nothing and returns the decoded
\* text of that response to process_page.
C21_ExhaustedReturnsRaw ==
    \A p \in Pages :
        Exhausted(p) =>
            /\ pc[p] \in {"parse", "raise"}
            /\ loc[p].translated_page_data_str = LastDecoded(p).val
            /\ loc[p].translated_page_data_str.ty = "str"
            /\ pc[p] = "raise" => result[p].exc.msg # "send_page_to_llm"

\* C21 witness: send_page_to_llm returned, after the third attempt, a text
\* that the escape decoding had changed
C21_DecodedTextReturned ==
    \E p \in Pages :
        /\ Exhausted(p) /\ pc[p] = "parse"
        /\ loc[p].translated_page_data_str # loc[p].lastcall.answer.response

\* C22 as claimed: after retry exhaustion the page goes on to the
\* reintegration stage with the text that did not parse.
C22_RawReachesReintegration ==
    \A p \in Pages :
        (Exhausted(p) /\ pc[p] # "parse") =>
            /\ pc[p] \in {"reintegrate", "return"} \/ Reintegrated(p)
            /\ loc[p].translated_page_data = loc[p].translated_page_data_str

\* C22 amended: after retry exhaustion the text that did not parse goes to
\* parse_llm_response, which raises the empty-response or the decode
\* Exception: the page ends there, and the reintegration stage is never
\* reached with a text that did not parse.
C22_RawStopsAtParse ==
    \A p \in Pages :
        /\ Exhausted(p) =>
              /\ pc[p] \in {"parse", "raise"}
              /\ loc[p].translated_page_data = PyNone
              /\ pc[p] = "raise" =>
                    /\ result[p].exc.type = "Exception"
                    /\ result[p].exc.msg \in { "LLM response is empty or invalid",
                                                "Failed to decode LLM response" }
        /\ pc[p] \in {"reintegrate", "return"} =>
              /\ ~LastUnparsable(p)
              /\ loc[p].translated_page_data.ty = "dict"

\* C22 witness: parse_llm_response raised the decode Exception for the text
\* returned after the third attempt
C22_DecodeFailureAfterExhaustion ==
    \E p \in Pages :
        /\ Exhausted(p) /\ pc[p] = "raise"
        /\ result[p].exc.msg = "Failed to decode LLM response"

BothKeys(e) == e.translated_text_fragment.present /\ e.original_text_fragment.present

\* C23 as claimed: when the response holds fewer entries than the page has
\* fragments, the loop handles the first pairs (an entry that holds both
\* keys and the fragment's own text puts its translation in the fragment),
\* leaves the fragments behind them as they were, and the page ends without
\* an error.
C23_ShorterResponseProcessed ==
    \A p \in Pages :
        (Reintegrated(p) /\ Len(Entries(p)) < Len(Originals(p))) =>
            /\ pc[p] = "return"
            /\ \A i \in 1..Len(Originals(p)) :
                  loc[p].original_text_fragments[i] =
                      IF i \in Paired(p) /\ BothKeys(Entries(p)[i]) /\ ~ClaimsOther(p, i)
                      THEN Entries(p)[i].translated_text_fragment.text
                      ELSE Originals(p)[i]

\* the file of the request of page p holds what send_page_to_llm saved
RequestSaved(p) ==
    /\ files[p].request.exists /\ files[p].request.writes = 1
    /\ pc[p] \in {"attempt", "parse", "reintegrate", "return", "raise"}

\* C24: the request of a page is written to its file once, by the step
\* that leaves the send stage with no chat call made yet; no attempt of
\* the retry loop writes it again, and every chat call finds it written.
C24_RequestSavedOnce ==
    /\ [][ \A p \in Pages :
               files'[p].request # files[p].request =>
                   /\ pc[p] = "send" /\ pc'[p] = "attempt"
                   /\ ~Called(p) /\ ~Called(p)'
                   /\ files[p].request = NoFile
                   /\ files'[p].request.writes = 1
                   /\ files'[p].request.content = PyStr(json_dumps(loc[p].page_data)) ]_vars
    /\ [](\A p \in Pages :
             /\ files[p].request.writes <= 1
             /\ pc[p] = "attempt" => files[p].request.writes = 1
             /\ Called(p) => files[p].request.writes = 1)

\* C24 witness: three chat calls were made for a page and its request file
\* was written once
C24_ThreeCallsOneRequestFile ==
    \E p \in Pages :
        /\ loc[p].ncalls = max_retries + 1
        /\ RequestSaved(p)

\* the members of seq at the indices of S, in order
RECURSIVE Pick(_, _, _)
Pick(seq, i, S) ==
    IF i > Len(seq) THEN <<>>
    ELSE (IF i \in S THEN <<seq[i]>> ELSE <<>>) \o Pick(seq, i + 1, S)

\* the paired indices of page p whose response entry holds both keys
Checked(p) == { i \in Paired(p) : BothKeys(Entries(p)[i]) }

\* C28: a response entry that lacks one of the two keys is skipped: its
\* fragment keeps its text, and the loop ends as it ends on the pairs
\* whose entry holds both keys (no error comes from the skipped pair,
\* whatever original text it claims, and the pairs after it are handled).
C28_MissingKeySkipped ==
    \A p \in Pages :
        Reintegrated(p) =>
            LET rest == Reintegrate(Pick(Originals(p), 1, Checked(p)),
                                    Pick(Entries(p), 1, Checked(p)))
            IN  /\ \A i \in Paired(p) \ Checked(p) :
                      loc[p].original_text_fragments[i] = Originals(p)[i]
                /\ result[p].exc = rest.exc
                /\ pc[p] = "return" <=> rest.exc = NoExc

\* C28 witness: the loop ended without an error on a response whose entry
\* lacks the translated key and claims another original text
C28_SkippedWrongEntry ==
    \E p \in Pages :
        /\ Reintegrated(p) /\ pc[p] = "return"
        /\ \E i \in Paired(p) :
              /\ ~Entries(p)[i].translated_text_fragment.present
              /\ ClaimsOther(p, i)

\* C25 as claimed: a translate call and a chat call are suspension points:
\* while the Task of a page is at one of them, the Task of another page
\* that waits first in the ready queue can take its first step.
C25_CallsSuspend ==
    \A p, q \in Pages :
        ( /\ p # q /\ running = p
          /\ pc[p] \in {"translate", "attempt"}
          /\ pc[q] = "created"
          /\ ready # <<>> /\ Head(ready) = Handle("step", q) ) =>
            ENABLED RunTask(q)

\* the constructor calls i < j with a reset_logger call between them
ResetBetween(i, j) ==
    /\ i < j
    /\ logger_calls[i].op = "construct" /\ logger_calls[j].op = "construct"
    /\ \E k \in i..j : logger_calls[k].op = "reset"

\* the constructor calls that made an object: the first call, and the
\* first after each reset_logger
Makers ==
    { j \in 1..Len(logger_calls) :
        /\ logger_calls[j].op = "construct"
        /\ j = 1 \/ logger_calls[j - 1].op = "reset" }

\* C26: a constructor call that follows a reset_logger returns another
\* object than every constructor call before the reset, initialised once
\* by that call with its own two handlers; the objects made before stay as
\* they were, every one of them initialised with its handlers; there are
\* as many objects as constructor calls that came first or right after a
\* reset, and the constructor calls up to the next reset return the newest.
C26_ResetMakesNew ==
    /\ [][ /\ Len(loggers') >= Len(loggers)
           /\ \A i \in 1..Len(loggers) : loggers'[i] = loggers[i] ]_vars
    /\ [](/\ \A i, j \in 1..Len(logger_calls) :
                ResetBetween(i, j) => logger_calls[j].ret > logger_calls[i].ret
          /\ Len(loggers) = Cardinality(Makers)
          /\ \A j \in Makers :
                LET obj == loggers[logger_calls[j].ret]
                IN  /\ logger_calls[j].ret = Cardinality({ i \in Makers : i <= j })
                    /\ obj.initialized /\ obj.inits = 1
                    /\ obj.handlers = <<"file", "console">>
                    /\ obj.name = logger_calls[j].args.name
                    /\ obj.file_logging = logger_calls[j].args.file_logging
                    /\ obj.console_logging = logger_calls[j].args.console_logging
          /\ \A j \in 1..Len(logger_calls) :
                logger_calls[j].op = "construct" =>
                    logger_calls[j].ret = Cardinality({ i \in Makers : i <= j })
          /\ cls_instance \in {0, Len(loggers)})

\* C26 witness: construct, reset, construct with other arguments, construct:
\* two objects, each as its first call configured it, the second returned
\* by the last two calls
C26_TwoLiveLoggers ==
    /\ Len(logger_calls) = 4 /\ Len(loggers) = 2
    /\ logger_calls[1].op = "construct" /\ logger_calls[2].op = "reset"
    /\ logger_calls[3].op = "construct" /\ logger_calls[4].op = "construct"
    /\ logger_calls[1].ret = 1 /\ logger_calls[3].ret = 2 /\ logger_calls[4].ret = 2
    /\ loggers[1].name # loggers[2].name
    /\ loggers[1].initialized /\ loggers[2].initialized

\* what the last log operation added to the outputs of its logger
WroteFile == file_lines(loggers[last_log.target]) > last_log.file_lines
WroteConsole == console_lines(loggers[last_log.target]) > last_log.console_lines

\* C27 as claimed: a logger made with file_logging=False has no file
\* handler and its setup wrote nothing to a log file, info and a
\* log_with_box without a log_to_file argument write nothing to a log file
\* on such a logger, and log_with_box emits to the console exactly when its
\* effective log_to_console is true and to the file exactly when its
\* effective log_to_file is true.
C27_FlagsGateOutputs ==
    /\ \A i \in 1..Len(loggers) :
          ~loggers[i].file_logging =>
              /\ ~HasHandler(loggers[i], "file")
              /\ last_log.op = "none" => file_lines(loggers[i]) = 0
    /\ last_log.op # "none" =>
          LET obj == loggers[last_log.target]
          IN  /\ ( /\ ~obj.file_logging
                    /\ (last_log.op = "info" \/ last_log.log_to_file = "None") ) => ~WroteFile
              /\ last_log.op = "box" =>
                    /\ WroteConsole <=> Effective(last_log.log_to_console, obj.console_logging)
                    /\ WroteFile <=> Effective(last_log.log_to_file, obj.file_logging)
====
